---- MODULE Spec2Model ----
(***************************************************************************)
(* Model of SubprocessCLITransport                                         *)
(* (src/src/claude_code_sdk/_internal/transport/subprocess_cli.py).        *)
(*                                                                         *)
(* Text is a sequence of one-character strings.  The transport is driven   *)
(* by one consumer task (connect, iteration of receive_messages,           *)
(* disconnect); the child process, its two pipes and the read_stderr task  *)
(* run concurrently with it.  Every item the text streams deliver is one   *)
(* line, as the code's loops assume.                                       *)
(***************************************************************************)
EXTENDS Integers, Sequences, FiniteSets, TLC

\* ---------------------------------------------------------------- characters
LB == "{"
RB == "}"
LK == "["
RK == "]"
QT == "\""
BS == "\\"
NL == "\n"
SP == " "
CO == ","
CL == ":"

Digits == {"0", "1", "2", "3", "4", "5", "6", "7", "8", "9"}
Whitespace == {SP, NL, "\t", "\r"}
\* characters json accepts after a backslash inside a string (\uXXXX aside)
EscapeChars == {QT, BS, "/", "b", "f", "n", "r", "t"}

\* ---------------------------------------------------------------- bounds
MaxLines == 2          \* message-stream lines the children write in a run
MaxFrameLines == 3     \* the same, in the specification of the framing
MaxErrLines == 2       \* diagnostic-stream lines the children write in a run
MaxSpawn == 2          \* children the transport spawns over its life
MaxCalls == 2          \* receive_messages() sequences started
PipeCap == 1           \* lines a pipe holds before the child blocks

\* The buffer ceiling of the code (50 * 1024 * 1024), scaled to the model's
\* line lengths.
MAX_BUFFER_SIZE == 8

None == 0

\* ---------------------------------------------------------------- str helpers
RECURSIVE LStrip(_)
LStrip(s) == IF s # <<>> /\ Head(s) \in Whitespace THEN LStrip(Tail(s)) ELSE s

RECURSIVE RStrip(_)
RStrip(s) ==
    IF s # <<>> /\ s[Len(s)] \in Whitespace
    THEN RStrip(SubSeq(s, 1, Len(s) - 1))
    ELSE s

\* str.strip()
Strip(s) == RStrip(LStrip(s))

\* str.startswith(c) for a one-character prefix
StartsWith(s, c) == s # <<>> /\ s[1] = c

\* "\n".join(lines)
RECURSIVE JoinLines(_)
JoinLines(ls) ==
    IF ls = <<>> THEN <<>>
    ELSE IF Len(ls) = 1 THEN ls[1]
    ELSE ls[1] \o <<NL>> \o JoinLines(Tail(ls))

\* str.lower() on the letters the diagnostic lines use
LowerChar(c) ==
    CASE c = "E" -> "e"
      [] c = "R" -> "r"
      [] c = "O" -> "o"
      [] OTHER -> c

Lower(s) == [i \in 1..Len(s) |-> LowerChar(s[i])]

\* needle in s
Contains(s, needle) ==
    \E i \in 1..(Len(s) - Len(needle) + 1) :
        SubSeq(s, i, i + Len(needle) - 1) = needle

ErrorIndicator == <<"e", "r", "r", "o", "r">>

\* ---------------------------------------------------------------- json.loads
\* A recursive-descent recogniser of the JSON grammar over the characters
\* the model's lines use.  Each Parse* takes the text and the index of the
\* next character and gives the index after the item, or 0 when the text
\* is not that item.
RECURSIVE SkipWS(_, _)
SkipWS(s, i) ==
    IF i <= Len(s) /\ s[i] \in Whitespace THEN SkipWS(s, i + 1) ELSE i

\* i is the index after the opening quote
RECURSIVE ParseStringBody(_, _)
ParseStringBody(s, i) ==
    IF i > Len(s) THEN 0
    ELSE IF s[i] = QT THEN i + 1
    ELSE IF s[i] = BS
         THEN IF i + 1 <= Len(s) /\ s[i + 1] \in EscapeChars
              THEN ParseStringBody(s, i + 2)
              ELSE 0
    ELSE IF s[i] \in {NL, "\t", "\r"} THEN 0   \* control character (strict)
    ELSE ParseStringBody(s, i + 1)

RECURSIVE ParseDigits(_, _)
ParseDigits(s, i) ==
    IF i <= Len(s) /\ s[i] \in Digits THEN ParseDigits(s, i + 1) ELSE i

\* i is the index of the first digit
ParseNumber(s, i) ==
    IF s[i] = "0" THEN i + 1 ELSE ParseDigits(s, i + 1)

RECURSIVE ParseValue(_, _)
RECURSIVE ParseMembers(_, _)
RECURSIVE ParseElements(_, _)

ParseValue(s, i) ==
    IF i > Len(s) THEN 0
    ELSE IF s[i] = QT THEN ParseStringBody(s, i + 1)
    ELSE IF s[i] = LB
         THEN LET j == SkipWS(s, i + 1)
              IN  IF j <= Len(s) /\ s[j] = RB THEN j + 1 ELSE ParseMembers(s, j)
    ELSE IF s[i] = LK
         THEN LET j == SkipWS(s, i + 1)
              IN  IF j <= Len(s) /\ s[j] = RK THEN j + 1 ELSE ParseElements(s, j)
    ELSE IF s[i] \in Digits THEN ParseNumber(s, i)
    ELSE 0

\* i is the index where a "key": value pair must start
ParseMembers(s, i) ==
    IF i > Len(s) \/ s[i] # QT THEN 0
    ELSE LET k == ParseStringBody(s, i + 1)
             c == SkipWS(s, k)
         IN  IF k = 0 \/ c > Len(s) \/ s[c] # CL THEN 0
             ELSE LET v == ParseValue(s, SkipWS(s, c + 1))
                      e == SkipWS(s, v)
                  IN  IF v = 0 \/ e > Len(s) THEN 0
                      ELSE IF s[e] = RB THEN e + 1
                      ELSE IF s[e] = CO THEN ParseMembers(s, SkipWS(s, e + 1))
                      ELSE 0

\* i is the index where an array element must start
ParseElements(s, i) ==
    LET v == ParseValue(s, i)
        e == SkipWS(s, v)
    IN  IF v = 0 \/ e > Len(s) THEN 0
        ELSE IF s[e] = RK THEN e + 1
        ELSE IF s[e] = CO THEN ParseElements(s, SkipWS(s, e + 1))
        ELSE 0

\* json.loads(s) succeeds
JsonValid(s) ==
    LET v == ParseValue(s, SkipWS(s, 1))
    IN  v # 0 /\ SkipWS(s, v) = Len(s) + 1

\* The decoded value: the text with the whitespace between its tokens
\* dropped, so texts that differ only in line breaks decode to one value.
RECURSIVE Compact(_, _)
Compact(s, inStr) ==
    IF s = <<>> THEN <<>>
    ELSE IF inStr
         THEN IF Head(s) = BS /\ Len(s) >= 2
              THEN <<s[1], s[2]>> \o Compact(SubSeq(s, 3, Len(s)), TRUE)
              ELSE <<Head(s)>> \o Compact(Tail(s), Head(s) # QT)
    ELSE IF Head(s) \in Whitespace THEN Compact(Tail(s), FALSE)
    ELSE <<Head(s)>> \o Compact(Tail(s), Head(s) = QT)

\* json.loads: [ok |-> FALSE] stands for JSONDecodeError
JsonLoads(s) ==
    IF JsonValid(s) THEN [ok |-> TRUE, value |-> Compact(s, FALSE)]
    ELSE [ok |-> FALSE, value |-> <<>>]

\* ---------------------------------------------------------------- scanner
\* ScanChar with the brackets and braces counted inside strings too.
ScanChar_CountsInStrings(st, c) ==
    IF st.in_string /\ c \notin {LB, RB, LK, RK}
    THEN IF st.escape_next THEN [st EXCEPT !.escape_next = FALSE]
         ELSE IF c = BS THEN [st EXCEPT !.escape_next = TRUE]
         ELSE IF c = QT THEN [st EXCEPT !.in_string = FALSE]
         ELSE st
    ELSE IF c = QT THEN [st EXCEPT !.in_string = TRUE]
         ELSE IF c = LB THEN [st EXCEPT !.brace_count = @ + 1]
         ELSE IF c = RB THEN [st EXCEPT !.brace_count = @ - 1]
         ELSE IF c = LK THEN [st EXCEPT !.bracket_count = @ + 1]
         ELSE IF c = RK THEN [st EXCEPT !.bracket_count = @ - 1]
         ELSE st

\* One iteration of the character loop.
ScanChar(st, c) ==
    IF st.in_string
    THEN IF st.escape_next THEN [st EXCEPT !.escape_next = FALSE]
         ELSE IF c = BS THEN [st EXCEPT !.escape_next = TRUE]
         ELSE IF c = QT THEN [st EXCEPT !.in_string = FALSE]
         ELSE st
    ELSE IF c = QT THEN [st EXCEPT !.in_string = TRUE]
         ELSE IF c = LB THEN [st EXCEPT !.brace_count = @ + 1]
         ELSE IF c = RB THEN [st EXCEPT !.brace_count = @ - 1]
         ELSE IF c = LK THEN [st EXCEPT !.bracket_count = @ + 1]
         ELSE IF c = RK THEN [st EXCEPT !.bracket_count = @ - 1]
         ELSE st

\* The character loop over the first n characters of a line.
RECURSIVE ScanPrefix(_, _, _)
ScanPrefix(st, line, n) ==
    IF n = 0 THEN st ELSE ScanChar(ScanPrefix(st, line, n - 1), line[n])

ScanLine(st, line) == ScanPrefix(st, line, Len(line))

\* ---------------------------------------------------------------- inputs
\* Message-stream lines of the lifecycle specification: a frame, a log
\* line, an opening fragment and a line longer than the ceiling.
Lines ==
    { <<LB, RB>>,
      <<"a">>,
      <<LK, LK, LK, LK, LK, LK, LK, LK, LK>> }

\* Message-stream lines of the specification of the framing: frames on one
\* line, fragments of frames, strings that hold brackets, braces, escaped
\* quotes and backslashes, log lines, lines at and over the ceiling, blank
\* and padded lines.
FrameLines ==
    { <<LB, RB>>,
      <<LK, RK>>,
      <<LK>>,
      <<RK>>,
      <<RB>>,
      <<"1">>,
      <<"a">>,
      <<"a", LB>>,
      <<"a", QT>>,
      <<LK, "1", CO>>,
      <<"1", RK>>,
      <<LB, QT, "a", QT, CL>>,
      <<"1", RB>>,
      <<LB, QT, "a", QT, CL, "1", RB>>,
      <<LK, QT, RK, QT, RK>>,
      <<LB, QT, RB, QT, CL, "1", RB>>,
      <<LK, QT, BS, QT, RB, QT, RK>>,
      <<LK, QT, BS, BS, QT, RK>>,
      <<LK, QT, "a", BS>>,
      <<QT, RK>>,
      <<LK, LK, LK>>,
      <<LK, CO, RK>>,
      <<LK, CO, CO, CO, CO, CO, CO, RK>>,
      <<LK, "1", "1", "1", "1", "1", "1", "1", RK>>,
      <<SP>>,
      <<SP, LB, RB, SP>> }

\* Diagnostic-stream lines.
ErrLines ==
    { <<"E", "r", "r", "o", "r">>,
      <<"o", "r", SP>> }

\* Exit codes of a child that ends by itself, and after SIGTERM / SIGKILL.
ExitCodes == {0, 1}
SIGTERM_CODE == 0 - 15
SIGKILL_CODE == 0 - 9

Children == 1..MaxSpawn

\* ---------------------------------------------------------------- state
VARIABLES
    process,          \* self._process: None or the child it holds
    stdout_stream,    \* self._stdout_stream: None or the child whose stdout it wraps
    stderr_stream,    \* self._stderr_stream
    child,            \* the child processes: status, exit code, pipes, signals
                      \* and the diagnostic lines written so far
    outN,             \* lines written to the message streams so far
    errN,             \* lines written to the diagnostic streams so far
    pc,               \* position of the receive_messages generator
    err,              \* exception the last consumer call raised ("none" if none)
    failure,          \* exit_code and stderr of the raised ProcessError
    json_buffer,      \* locals of receive_messages
    brace_count,
    bracket_count,
    in_string,
    escape_next,
    stderr_lines,
    gen_out,          \* the stream the message loop iterates (bound at line 195)
    drain,            \* the read_stderr task: "idle", "running", "done", "cancelled"
    yielded,          \* values the current sequence has yielded
    fed,              \* lines the current sequence has processed, with their outcome
    dpc,              \* position of disconnect()
    calls,            \* receive_messages() sequences started
    call_err,         \* exception the last connect() / disconnect() raised
    last              \* the consumer call made last

transport == <<process, stdout_stream, stderr_stream>>
scanner == <<json_buffer, brace_count, bracket_count, in_string, escape_next>>
gen == <<pc, err, failure, scanner, stderr_lines, gen_out, drain, yielded, fed, calls>>
env == <<child, outN, errN>>
vars == <<transport, env, gen, dpc, call_err, last>>

Scanner ==
    [brace_count |-> brace_count, bracket_count |-> bracket_count,
     in_string |-> in_string, escape_next |-> escape_next]

NoFailure == [exit_code |-> 0, stderr |-> <<>>]

Unborn ==
    [status |-> "unborn", code |-> 0, signals |-> <<>>,
     outPipe |-> <<>>, errPipe |-> <<>>, errLog |-> <<>>]

\* Process.returncode is None
ReturncodeNone(k) == child[k].status # "exited"

\* __init__ (lines 34-36): no process, no streams
Init ==
    /\ process = None
    /\ stdout_stream = None
    /\ stderr_stream = None
    /\ child = [k \in Children |-> Unborn]
    /\ outN = 0
    /\ errN = 0
    /\ pc = "idle"
    /\ err = "none"
    /\ failure = NoFailure
    /\ json_buffer = <<>>
    /\ brace_count = 0
    /\ bracket_count = 0
    /\ in_string = FALSE
    /\ escape_next = FALSE
    /\ stderr_lines = <<>>
    /\ gen_out = None
    /\ drain = "idle"
    /\ yielded = <<>>
    /\ fed = <<>>
    /\ dpc = "idle"
    /\ calls = 0
    /\ call_err = "none"
    /\ last = "none"

\* The consumer task is between two calls: no disconnect() in progress and
\* the generator not running (not started, suspended at its yield, or over).
ConsumerFree ==
    dpc = "idle" /\ pc \in {"idle", "yielded", "done", "closed", "failed"}

\* is_connected with the exit code not looked at.
is_connected_HandleOnly == process # None

\* is_connected() (lines 291-293)
is_connected == process # None /\ ReturncodeNone(process)

\* ---------------------------------------------------------------- connect
\* AlreadyConnected with the check left out.
AlreadyConnected_Never == FALSE

\* line 119: if self._process: return
AlreadyConnected == process # None

\* connect() (lines 117-141)
Connect ==
    /\ ConsumerFree
    /\ IF AlreadyConnected
       THEN /\ last' = "connect_noop"
            /\ call_err' = "none"
            /\ UNCHANGED <<transport, child>>
       ELSE \/ \E k \in Children :
                 /\ child[k].status = "unborn"
                 /\ \A j \in Children : j < k => child[j].status # "unborn"
                 /\ child' = [child EXCEPT ![k].status = "running"]
                 /\ process' = k
                 /\ stdout_stream' = k
                 /\ stderr_stream' = k
                 /\ last' = "connect_spawn"
                 /\ call_err' = "none"
            \/ \E e \in {"CLINotFoundError", "CLIConnectionError"} :
                 /\ last' = "connect_fail"
                 /\ call_err' = e
                 /\ UNCHANGED <<transport, child>>
    /\ UNCHANGED <<outN, errN, gen, dpc>>

\* ---------------------------------------------------------------- disconnect
\* Release with the process handle kept.
Release_KeepsProcess ==
    /\ process' = process
    /\ stdout_stream' = None
    /\ stderr_stream' = None
    /\ dpc' = "idle"
    /\ call_err' = "none"

\* lines 159-161, and the return of disconnect()
Release ==
    /\ process' = None
    /\ stdout_stream' = None
    /\ stderr_stream' = None
    /\ dpc' = "idle"
    /\ call_err' = "none"

\* Process.terminate() / Process.kill()
Signal(k, sig) == [child EXCEPT ![k].signals = Append(@, sig)]

\* line 145: if not self._process
NoProcess == process = None

\* StillRunning with the check left out.
StillRunning_Always == TRUE

\* line 148: if self._process.returncode is None
StillRunning == ReturncodeNone(process)

\* disconnect() up to its first suspension (lines 143-152)
Disconnect ==
    /\ ConsumerFree
    /\ IF NoProcess
       THEN /\ last' = "disconnect_noop"
            /\ call_err' = "none"
            /\ UNCHANGED <<transport, child, dpc>>
       ELSE /\ last' = "disconnect"
            /\ IF ~StillRunning
               THEN Release /\ UNCHANGED child
               ELSE \/ /\ child' = Signal(process, "TERM")
                       /\ dpc' = "termwait"
                       /\ UNCHANGED <<transport, call_err>>
                    \* the child ends between the check of line 148 and
                    \* the signal: ProcessLookupError (line 156)
                    \/ /\ \E c \in ExitCodes :
                            child' = [child EXCEPT ![process].status = "exited",
                                                   ![process].code = c]
                       /\ Release
    /\ UNCHANGED <<outN, errN, gen>>

\* the wait of line 152 returns within the timeout
DisconnectWaited ==
    /\ dpc = "termwait"
    /\ ~ReturncodeNone(process)
    /\ Release
    /\ UNCHANGED <<env, gen, last>>

\* DisconnectTimeout with the TimeoutError left to the caller.
DisconnectTimeout_Raises ==
    /\ dpc = "termwait"
    /\ ReturncodeNone(process)
    /\ dpc' = "idle"
    /\ call_err' = "TimeoutError"
    /\ UNCHANGED <<transport, env, gen, last>>

\* fail_after(5.0) fires: TimeoutError, kill() (lines 153-154)
DisconnectTimeout ==
    /\ dpc = "termwait"
    /\ ReturncodeNone(process)
    /\ child' = Signal(process, "KILL")
    /\ dpc' = "killwait"
    /\ UNCHANGED <<transport, outN, errN, gen, call_err, last>>

\* the wait of line 155 returns
DisconnectKilled ==
    /\ dpc = "killwait"
    /\ ~ReturncodeNone(process)
    /\ Release
    /\ UNCHANGED <<env, gen, last>>

\* ---------------------------------------------------------------- the child
\* the child writes a line to its stdout pipe
ChildWriteOut(k, l) ==
    /\ child[k].status = "running"
    /\ Len(child[k].outPipe) < PipeCap
    /\ outN' = outN + 1
    /\ child' = [child EXCEPT ![k].outPipe = Append(@, l)]
    /\ UNCHANGED <<transport, errN, gen, dpc, call_err, last>>

\* the child writes a line to its stderr pipe
ChildWriteErr(k, l) ==
    /\ child[k].status = "running"
    /\ Len(child[k].errPipe) < PipeCap
    /\ errN' = errN + 1
    /\ child' = [child EXCEPT ![k].errPipe = Append(@, l),
                               ![k].errLog = Append(@, l)]
    /\ UNCHANGED <<transport, outN, gen, dpc, call_err, last>>

Signalled(k, sig) ==
    \E i \in 1..Len(child[k].signals) : child[k].signals[i] = sig

\* The child ends and Process.returncode is set: by itself, on SIGTERM
\* (which it may ignore by not taking this step), or on SIGKILL.
ChildExit(k) ==
    /\ child[k].status = "running"
    /\ \E c \in ExitCodes \cup {SIGTERM_CODE, SIGKILL_CODE} :
         /\ c = SIGTERM_CODE => Signalled(k, "TERM")
         /\ c = SIGKILL_CODE => Signalled(k, "KILL")
         /\ child' = [child EXCEPT ![k].status = "exited", ![k].code = c]
    /\ UNCHANGED <<transport, outN, errN, gen, dpc, call_err, last>>

\* ---------------------------------------------------------------- receive_messages
\* NotConnected with the process handle not looked at.
NotConnected_StreamOnly == process # None /\ stdout_stream = None

\* line 168: if not self._process or not self._stdout_stream
NotConnected == process = None \/ stdout_stream = None

\* ResetScanner with the buffer left as it is.
ResetScanner_KeepsBuffer ==
    /\ json_buffer' = json_buffer
    /\ brace_count' = 0
    /\ bracket_count' = 0
    /\ in_string' = FALSE
    /\ escape_next' = FALSE

\* lines 254-259 and 271-275: reset buffer and counters
ResetScanner ==
    /\ json_buffer' = <<>>
    /\ brace_count' = 0
    /\ bracket_count' = 0
    /\ in_string' = FALSE
    /\ escape_next' = FALSE

SetScanner(buf, st) ==
    /\ json_buffer' = buf
    /\ brace_count' = st.brace_count
    /\ bracket_count' = st.bracket_count
    /\ in_string' = st.in_string
    /\ escape_next' = st.escape_next

\* BufferTooLarge with the size of the line alone checked.
BufferTooLarge_LineOnly(buf, line) == Len(line) > MAX_BUFFER_SIZE

\* line 205: the size check made before the line is added
BufferTooLarge(buf, line) == Len(buf) + Len(line) > MAX_BUFFER_SIZE

\* lines 213-216: add the line to the buffer
AddLine(buf, line) == IF buf # <<>> THEN buf \o <<NL>> \o line ELSE line

\* Complete with the string flag not looked at.
Complete_IgnoresString(buf, st) ==
    buf # <<>> /\ st.brace_count = 0 /\ st.bracket_count = 0

\* line 246: the buffer is a candidate for json.loads
Complete(buf, st) ==
    buf # <<>> /\ st.brace_count = 0 /\ st.bracket_count = 0 /\ ~st.in_string

\* line 262: the buffer starts like a JSON object or array
LooksLikeJson(buf) == StartsWith(buf, LB) \/ StartsWith(buf, LK)

\* The record of a processed line: the stripped line, what became of it
\* and the buffer and scanner state it met.
Fed(line, ev) ==
    [line |-> line, ev |-> ev, buf |-> json_buffer, st |-> Scanner]

\* an exception leaves the task group: the read_stderr task is cancelled
Raise(e) ==
    /\ pc' = "failed"
    /\ err' = e
    /\ drain' = IF drain = "running" THEN "cancelled" ELSE drain

\* The first __anext__ of a new receive_messages() (lines 166-193): the
\* connection check, the start of read_stderr and the locals.
ReceiveStart ==
    /\ ConsumerFree
    /\ pc \in {"idle", "done", "closed", "failed"}
    /\ calls < MaxCalls
    /\ calls' = calls + 1
    /\ last' = "anext"
    /\ yielded' = <<>>
    /\ fed' = <<>>
    /\ failure' = NoFailure
    /\ IF NotConnected
       THEN /\ pc' = "failed"
            /\ err' = "CLIConnectionError"
            /\ UNCHANGED <<scanner, stderr_lines, gen_out, drain>>
       ELSE /\ pc' = "reading"
            /\ err' = "none"
            /\ ResetScanner
            /\ stderr_lines' = <<>>
            /\ gen_out' = stdout_stream
            /\ drain' = IF stderr_stream # None THEN "running" ELSE "done"
    /\ UNCHANGED <<transport, env, dpc, call_err>>

\* One iteration of the loop of line 195: the next line of the message
\* stream and everything done with it, up to the next read, the yield or
\* the exception.
ReadLine ==
    /\ pc = "reading"
    /\ child[gen_out].outPipe # <<>>
    /\ LET line_str == Strip(Head(child[gen_out].outPipe))
           buf == AddLine(json_buffer, line_str)
           st == ScanLine(Scanner, line_str)
           data == JsonLoads(buf)
       IN  /\ child' = [child EXCEPT ![gen_out].outPipe = Tail(@)]
           /\ IF line_str = <<>>
              THEN /\ fed' = Append(fed, Fed(line_str, "skip"))
                   /\ UNCHANGED <<pc, err, drain, scanner, yielded>>
              ELSE IF BufferTooLarge(json_buffer, line_str)
              THEN /\ fed' = Append(fed, Fed(line_str, "raise"))
                   /\ Raise("SDKJSONDecodeError")
                   /\ UNCHANGED <<scanner, yielded>>
              ELSE IF ~Complete(buf, st)
              THEN /\ fed' = Append(fed, Fed(line_str, "keep"))
                   /\ SetScanner(buf, st)
                   /\ UNCHANGED <<pc, err, drain, yielded>>
              ELSE IF data.ok
              THEN /\ fed' = Append(fed, Fed(line_str, "yield"))
                   /\ SetScanner(buf, st)
                   /\ yielded' = Append(yielded, data.value)
                   /\ pc' = "yielded"
                   /\ UNCHANGED <<err, drain>>
              ELSE IF LooksLikeJson(buf)
              THEN IF Len(buf) < MAX_BUFFER_SIZE
                   THEN /\ fed' = Append(fed, Fed(line_str, "keep"))
                        /\ SetScanner(buf, st)
                        /\ UNCHANGED <<pc, err, drain, yielded>>
                   ELSE /\ fed' = Append(fed, Fed(line_str, "raise"))
                        /\ SetScanner(buf, st)
                        /\ Raise("SDKJSONDecodeError")
                        /\ UNCHANGED yielded
              ELSE /\ fed' = Append(fed, Fed(line_str, "reset"))
                   /\ ResetScanner
                   /\ UNCHANGED <<pc, err, drain, yielded>>
    /\ UNCHANGED <<transport, outN, errN, failure, stderr_lines, gen_out, dpc,
                   calls, call_err, last>>

\* __anext__ on the generator suspended at its yield: lines 254-259, then
\* the next read
Resume ==
    /\ ConsumerFree
    /\ pc = "yielded"
    /\ pc' = "reading"
    /\ last' = "anext"
    /\ ResetScanner
    /\ UNCHANGED <<transport, env, err, failure, stderr_lines, gen_out,
                   drain, yielded, fed, dpc, calls, call_err>>

\* aclose() on the generator suspended at its yield: GeneratorExit, return
\* (lines 251-253); the task group then waits for read_stderr
Close ==
    /\ ConsumerFree
    /\ pc = "yielded"
    /\ pc' = "closing"
    /\ last' = "aclose"
    /\ UNCHANGED <<transport, env, err, failure, scanner, stderr_lines,
                   gen_out, drain, yielded, fed, dpc, calls, call_err>>

\* ReadEOF with a framing error raised for a buffer left pending.
ReadEOF_RaisesOnPending ==
    /\ pc = "reading"
    /\ child[gen_out].outPipe = <<>>
    /\ child[gen_out].status = "exited"
    /\ IF json_buffer # <<>>
       THEN Raise("SDKJSONDecodeError")
       ELSE pc' = "joining" /\ UNCHANGED <<err, drain>>
    /\ UNCHANGED <<transport, env, failure, scanner, stderr_lines,
                   gen_out, yielded, fed, dpc, calls, call_err, last>>

\* the message stream is at its end: the loop of line 195 is over and the
\* task group waits for read_stderr
ReadEOF ==
    /\ pc = "reading"
    /\ child[gen_out].outPipe = <<>>
    /\ child[gen_out].status = "exited"
    /\ pc' = "joining"
    /\ UNCHANGED <<transport, env, err, failure, scanner, stderr_lines,
                   gen_out, drain, yielded, fed, dpc, calls, call_err, last>>

\* DrainRead made a step of the message loop: it reads only while the loop
\* has a line to read itself.
DrainRead_InMessageLoop ==
    /\ drain = "running"
    /\ pc = "reading"
    /\ child[gen_out].outPipe # <<>>
    /\ child[gen_out].errPipe # <<>>
    /\ stderr_lines' = Append(stderr_lines, Strip(Head(child[gen_out].errPipe)))
    /\ child' = [child EXCEPT ![gen_out].errPipe = Tail(@)]
    /\ UNCHANGED <<transport, outN, errN, pc, err, failure, scanner, gen_out,
                   drain, yielded, fed, dpc, calls, call_err, last>>

\* read_stderr reads a line (lines 177-178)
DrainRead ==
    /\ drain = "running"
    /\ child[gen_out].errPipe # <<>>
    /\ stderr_lines' = Append(stderr_lines, Strip(Head(child[gen_out].errPipe)))
    /\ child' = [child EXCEPT ![gen_out].errPipe = Tail(@)]
    /\ UNCHANGED <<transport, outN, errN, pc, err, failure, scanner, gen_out,
                   drain, yielded, fed, dpc, calls, call_err, last>>

\* read_stderr finds the diagnostic stream at its end
DrainEOF ==
    /\ drain = "running"
    /\ child[gen_out].errPipe = <<>>
    /\ child[gen_out].status = "exited"
    /\ drain' = "done"
    /\ UNCHANGED <<transport, env, pc, err, failure, scanner, stderr_lines,
                   gen_out, yielded, fed, dpc, calls, call_err, last>>

\* the task group is left after the end of the stream; line 281 reads
\* self._process
Joined ==
    /\ pc = "joining"
    /\ drain # "running"
    /\ IF process = None
       THEN /\ pc' = "failed"
            /\ err' = "AttributeError"
       ELSE /\ pc' = "waiting"
            /\ UNCHANGED err
    /\ UNCHANGED <<transport, env, failure, scanner, stderr_lines, gen_out,
                   drain, yielded, fed, dpc, calls, call_err, last>>

\* the task group is left after the return of line 253: the generator is
\* closed
Closed ==
    /\ pc = "closing"
    /\ drain # "running"
    /\ pc' = "closed"
    /\ UNCHANGED <<transport, env, err, failure, scanner, stderr_lines,
                   gen_out, drain, yielded, fed, dpc, calls, call_err, last>>

\* line 283
StderrOutput == JoinLines(stderr_lines)

\* lines 282 and 284: the exit code and the diagnostic text make a failure
IsFailure(code, text) ==
    code # 0 /\ text # <<>> /\ Contains(Lower(text), ErrorIndicator)

\* the wait of line 281 returns; lines 282-289
Reconcile ==
    /\ pc = "waiting"
    /\ ~ReturncodeNone(process)
    /\ IF IsFailure(child[process].code, StderrOutput)
       THEN /\ pc' = "failed"
            /\ err' = "ProcessError"
            /\ failure' = [exit_code |-> child[process].code,
                           stderr |-> StderrOutput]
       ELSE /\ pc' = "done"
            /\ UNCHANGED <<err, failure>>
    /\ UNCHANGED <<transport, env, scanner, stderr_lines, gen_out, drain,
                   yielded, fed, dpc, calls, call_err, last>>

\* ---------------------------------------------------------------- specification
Next ==
    \/ Connect
    \/ Disconnect
    \/ DisconnectWaited
    \/ DisconnectTimeout
    \/ DisconnectKilled
    \/ \E k \in Children, l \in Lines : outN < MaxLines /\ ChildWriteOut(k, l)
    \/ \E k \in Children, l \in ErrLines :
          errN < MaxErrLines /\ ChildWriteErr(k, l)
    \/ \E k \in Children : ChildExit(k)
    \/ ReceiveStart
    \/ ReadLine
    \/ Resume
    \/ Close
    \/ ReadEOF
    \/ DrainRead
    \/ DrainEOF
    \/ Joined
    \/ Closed
    \/ Reconcile

Spec == Init /\ [][Next]_vars

\* The framing alone: the transport is connected to a running child and
\* the first __anext__ of receive_messages() waits for a line.
InitFrame ==
    /\ process = 1
    /\ stdout_stream = 1
    /\ stderr_stream = 1
    /\ child = [k \in Children |->
                  IF k = 1 THEN [Unborn EXCEPT !.status = "running"] ELSE Unborn]
    /\ outN = 0
    /\ errN = 0
    /\ pc = "reading"
    /\ err = "none"
    /\ failure = NoFailure
    /\ json_buffer = <<>>
    /\ brace_count = 0
    /\ bracket_count = 0
    /\ in_string = FALSE
    /\ escape_next = FALSE
    /\ stderr_lines = <<>>
    /\ gen_out = 1
    /\ drain = "running"
    /\ yielded = <<>>
    /\ fed = <<>>
    /\ dpc = "idle"
    /\ calls = 1
    /\ call_err = "none"
    /\ last = "anext"

NextFrame ==
    \/ \E l \in FrameLines : outN < MaxFrameLines /\ ChildWriteOut(1, l)
    \/ ReadLine
    \/ Resume

SpecFrame == InitFrame /\ [][NextFrame]_vars

\* The lifecycle alone, with the fairness the event loop and the kernel
\* give: a wait whose process has ended returns, the 5 second timeout
\* fires while the child has not ended, and a child sent SIGKILL ends.
NextLife ==
    \/ Connect
    \/ Disconnect
    \/ DisconnectWaited
    \/ DisconnectTimeout
    \/ DisconnectKilled
    \/ \E k \in Children : ChildExit(k)

SpecLife ==
    /\ Init
    /\ [][NextLife]_vars
    /\ WF_vars(DisconnectWaited)
    /\ WF_vars(DisconnectTimeout)
    /\ WF_vars(DisconnectKilled)
    /\ \A k \in Children : WF_vars(Signalled(k, "KILL") /\ ChildExit(k))

\* One receive_messages() on a connected transport, neither connect() nor
\* disconnect() called meanwhile, with the fairness the event loop gives:
\* a task that can run does run. The child is free to write, to stay and
\* to end; the consumer is free to go on, to close and to stop.
\* Its message-stream lines: those of the lifecycle and the first line of
\* a frame that never ends.
DrainLines == Lines \cup {<<LK>>}

NextDrain ==
    \/ \E l \in DrainLines : outN < MaxLines /\ ChildWriteOut(1, l)
    \/ \E l \in ErrLines : errN < MaxErrLines /\ ChildWriteErr(1, l)
    \/ ChildExit(1)
    \/ ReadLine
    \/ Resume
    \/ Close
    \/ ReadEOF
    \/ DrainRead
    \/ DrainEOF
    \/ Joined
    \/ Closed
    \/ Reconcile

SpecDrain ==
    /\ InitFrame
    /\ [][NextDrain]_vars
    /\ WF_vars(ReadLine)
    /\ WF_vars(ReadEOF)
    /\ WF_vars(DrainRead)
    /\ WF_vars(DrainEOF)
    /\ WF_vars(Joined)
    /\ WF_vars(Closed)
    /\ WF_vars(Reconcile)

\* ---------------------------------------------------------------- the record of lines
\* lines i..j of the record
FedLines(i, j) == [m \in 1..(j - i + 1) |-> fed[i + m - 1].line]

\* the text of lines i..j joined by the line separator
FedText(i, j) == JoinLines(FedLines(i, j))

\* what became of the last non-blank line before line i
RECURSIVE PrevEv(_)
PrevEv(i) ==
    IF i = 1 THEN "start"
    ELSE IF fed[i - 1].ev = "skip" THEN PrevEv(i - 1)
    ELSE fed[i - 1].ev

\* line i is the first of the sequence or follows a yield or a discard:
\* the accumulator it meets has just been reset
Fresh(i) == PrevEv(i) \in {"start", "yield", "reset"}

\* none of lines i..j was blank
NoSkip(i, j) == \A m \in i..j : fed[m].ev # "skip"

\* no line of i..j met the size check of line 205
WithinCeiling(i, j) ==
    \A m \in i..j : Len(fed[m].buf) + Len(fed[m].line) <= MAX_BUFFER_SIZE

\* a valid JSON object or array
IsFrameText(s) == JsonValid(s) /\ (StartsWith(s, LB) \/ StartsWith(s, LK))

\* a line that is no JSON and does not start like an object or array
BareLog(l) == l # <<>> /\ ~JsonValid(l) /\ ~StartsWith(l, LB) /\ ~StartsWith(l, LK)

\* the number of values yielded up to line j
YieldsUpTo(j) == Cardinality({m \in 1..j : fed[m].ev = "yield"})

\* the size of the fragments accumulated once line i is added
FragmentTotal(i) ==
    Cardinality({n \in 1..Len(fed[i].buf) : fed[i].buf[n] # NL}) + Len(fed[i].line)

Brackets == {LB, RB, LK, RK}

\* ---------------------------------------------------------------- claims
\* C1: a line that is no JSON and does not start with { or [, fed when no
\* frame is pending, yields nothing, and every valid one-line JSON object
\* or array (within the ceiling) fed on a later line is yielded.
C1_LogLineNeverBlocks ==
    \A i \in 1..Len(fed) :
        (Fresh(i) /\ BareLog(fed[i].line)) =>
            /\ fed[i].ev # "yield"
            /\ \A j \in (i + 1)..Len(fed) :
                   (IsFrameText(fed[j].line) /\ Len(fed[j].line) <= MAX_BUFFER_SIZE)
                       => fed[j].ev = "yield"

\* C2, as stated: lines i..j, non-blank, fed to an empty accumulator, whose
\* joined text is one valid JSON object or array: nothing is yielded after
\* lines i..j-1 and the parse of the joined text is yielded after line j,
\* once.
C2_FrameYieldedOnce_Original ==
    /\ Len(yielded) = YieldsUpTo(Len(fed))
    /\ \A i \in 1..Len(fed) : \A j \in i..Len(fed) :
        (Fresh(i) /\ NoSkip(i, j) /\ IsFrameText(FedText(i, j))) =>
            /\ \A m \in i..(j - 1) : fed[m].ev # "yield"
            /\ fed[j].ev = "yield"
            /\ yielded[YieldsUpTo(j)] = JsonLoads(FedText(i, j)).value

\* C2, amended: the same for the frames no line of which trips the size
\* check (len(json_buffer) + len(line_str) <= MAX_BUFFER_SIZE at each
\* line); a frame one line of which trips it yields nothing and raises
\* SDKJSONDecodeError at that line.
C2_FrameYieldedOnce ==
    /\ Len(yielded) = YieldsUpTo(Len(fed))
    /\ \A i \in 1..Len(fed) : \A j \in i..Len(fed) :
        (Fresh(i) /\ NoSkip(i, j) /\ IsFrameText(FedText(i, j))) =>
            /\ \A m \in i..(j - 1) : fed[m].ev # "yield"
            /\ IF WithinCeiling(i, j)
               THEN /\ fed[j].ev = "yield"
                    /\ yielded[YieldsUpTo(j)] = JsonLoads(FedText(i, j)).value
               ELSE fed[j].ev = "raise"

C2_Witness ==
    /\ Len(fed) = 3
    /\ fed[1].ev = "keep"
    /\ fed[2].ev = "keep"
    /\ fed[3].ev = "yield"
    /\ IsFrameText(FedText(1, 3))
    /\ yielded = <<JsonLoads(FedText(1, 3)).value>>

\* position n of line i lies inside a string and holds a bracket, a brace
\* or a backslash-escaped quote
InsideString(i, n) ==
    LET b == ScanPrefix(fed[i].st, fed[i].line, n - 1)
    IN  /\ b.in_string
        /\ \/ fed[i].line[n] \in Brackets
           \/ (b.escape_next /\ fed[i].line[n] = QT)

\* C3: inside a string, a bracket, a brace and an escaped quote leave both
\* counters unchanged and the string open; a frame whose strings hold such
\* characters is yielded on its last line only.
C3_StringsAreOpaque ==
    /\ \A i \in 1..Len(fed) : \A n \in 1..Len(fed[i].line) :
        InsideString(i, n) =>
            LET b == ScanPrefix(fed[i].st, fed[i].line, n - 1)
                a == ScanPrefix(fed[i].st, fed[i].line, n)
            IN  /\ a.brace_count = b.brace_count
                /\ a.bracket_count = b.bracket_count
                /\ a.in_string
    /\ \A i \in 1..Len(fed) : \A j \in i..Len(fed) :
        (/\ Fresh(i) /\ NoSkip(i, j) /\ IsFrameText(FedText(i, j))
         /\ \E m \in i..j : \E n \in 1..Len(fed[m].line) : InsideString(m, n)) =>
            /\ \A m \in i..(j - 1) : fed[m].ev = "keep"
            /\ WithinCeiling(i, j) => fed[j].ev = "yield"

C3_Witness ==
    \E i \in 1..Len(fed) :
        /\ fed[i].ev = "yield"
        /\ \E n \in 1..Len(fed[i].line) :
               InsideString(i, n) /\ fed[i].line[n] = QT
        /\ \E n \in 1..Len(fed[i].line) :
               InsideString(i, n) /\ fed[i].line[n] \in Brackets

\* C4: a line that takes the accumulated fragments over the ceiling raises
\* SDKJSONDecodeError; the line that raises is the last the sequence
\* processes, no value follows it and the accumulator is left as it was,
\* not reset.
C4_TooLargeIsTerminal ==
    \A i \in 1..Len(fed) :
        /\ (fed[i].ev # "skip" /\ FragmentTotal(i) > MAX_BUFFER_SIZE)
               => fed[i].ev = "raise"
        /\ fed[i].ev = "raise" =>
               /\ i = Len(fed)
               /\ pc = "failed"
               /\ err = "SDKJSONDecodeError"
               /\ Len(yielded) = YieldsUpTo(i)
               /\ \/ json_buffer = fed[i].buf /\ Scanner = fed[i].st
                  \/ /\ json_buffer = AddLine(fed[i].buf, fed[i].line)
                     /\ Scanner = ScanLine(fed[i].st, fed[i].line)
               /\ fed[i].buf # <<>> => json_buffer # <<>>

C4_Witness ==
    /\ pc = "failed"
    /\ err = "SDKJSONDecodeError"
    /\ Len(fed) = 3
    /\ fed[3].ev = "raise"
    /\ fed[3].buf # <<>>
    /\ json_buffer = fed[3].buf

\* the sequence has run to the end of the message stream and is over
EndedAtEof ==
    pc = "done" \/ (pc = "failed" /\ err \in {"ProcessError", "AttributeError"})

\* C5: a sequence that has run to the end of the message stream ends with
\* a ProcessError that carries the exit code and the diagnostic text when
\* the child's exit code is not zero and the text holds "error" in any
\* case, and cleanly otherwise; the values yielded stay as they were.
C5_Reconciliation ==
    EndedAtEof =>
        LET code == child[gen_out].code
            text == JoinLines(stderr_lines)
        IN  /\ Len(yielded) = YieldsUpTo(Len(fed))
            /\ IF code # 0 /\ Contains(Lower(text), ErrorIndicator)
               THEN /\ pc = "failed"
                    /\ err = "ProcessError"
                    /\ failure = [exit_code |-> code, stderr |-> text]
               ELSE /\ pc = "done"
                    /\ err = "none"

\* the last signal sent to child k
LastSignal(k) == child[k].signals[Len(child[k].signals)]

\* C6: SIGKILL is sent only to the held, running child that was sent
\* SIGTERM and outlasted the graceful wait; disconnect() returns from
\* either wait only once the child has ended, with the handles released
\* and no error; and a disconnect() that waits eventually returns so.
C6_ForcedKill ==
    /\ [][\A k \in Children :
            (child'[k].signals # child[k].signals /\ LastSignal(k)' = "KILL") =>
                /\ dpc = "termwait"
                /\ process = k
                /\ child[k].status = "running"
                /\ child[k].signals = <<"TERM">>
                /\ dpc' = "killwait"]_vars
    /\ [][(dpc # "idle" /\ dpc' = "idle") =>
                /\ child'[process].status = "exited"
                /\ process' = None
                /\ stdout_stream' = None
                /\ stderr_stream' = None
                /\ call_err' = "none"]_vars
    /\ \A k \in Children :
          (dpc = "termwait" /\ process = k) ~>
              (/\ dpc = "idle"
               /\ last = "disconnect"
               /\ process = None
               /\ child[k].status = "exited"
               /\ call_err = "none")

C6_Witness ==
    \E k \in Children :
        /\ child[k].signals = <<"TERM", "KILL">>
        /\ child[k].status = "exited"
        /\ child[k].code = SIGKILL_CODE
        /\ dpc = "idle"
        /\ last = "disconnect"
        /\ process = None
        /\ call_err = "none"

\* C7: disconnect() with no child held changes nothing and raises
\* nothing; disconnect() with the held child already ended sends no signal,
\* raises nothing and releases the handles.
C7_DisconnectIdempotent ==
    /\ [][(Disconnect /\ process = None) =>
              /\ UNCHANGED <<transport, env, gen, dpc>>
              /\ call_err' = "none"]_vars
    /\ [][(Disconnect /\ process # None /\ child[process].status = "exited") =>
              /\ child' = child
              /\ process' = None
              /\ stdout_stream' = None
              /\ stderr_stream' = None
              /\ dpc' = "idle"
              /\ call_err' = "none"]_vars

C7_Witness ==
    /\ last = "disconnect_noop"
    /\ process = None
    /\ \E k \in Children :
          child[k].status = "exited" /\ child[k].signals = <<>>

\* C8: connect() with a child held changes nothing, and every running
\* child is the one the transport holds: at most one at a time.
C8_ConnectIdempotent ==
    /\ [][(Connect /\ process # None) =>
              UNCHANGED <<transport, env, gen, dpc>>]_vars
    /\ [](\A k \in Children : child[k].status = "running" => process = k)

C8_Witness ==
    /\ last = "connect_noop"
    /\ process # None
    /\ child[process].status = "running"
    /\ pc = "yielded"

\* C9, as stated: once disconnect() has completed, the transport never
\* holds a child again.
C9_NeverReopens_Original ==
    [][(process = None /\ \E k \in Children : child[k].status # "unborn")
           => process' = None]_vars

\* C9, amended: once disconnect() has completed the transport holds no
\* child and is_connected() is false, and only connect() changes that, by
\* spawning a new child; receive_messages() and disconnect() never do.
C9_OnlyConnectReopens ==
    /\ []((dpc = "idle" /\ last \in {"disconnect", "disconnect_noop"}) =>
              /\ process = None
              /\ stdout_stream = None
              /\ stderr_stream = None
              /\ ~is_connected)
    /\ [][((process = None /\ process' # None) \/ (~is_connected /\ is_connected')) =>
              /\ last' = "connect_spawn"
              /\ child[process'].status = "unborn"
              /\ child'[process'].status = "running"
              /\ UNCHANGED <<gen, dpc>>]_vars

C9_Witness ==
    /\ last = "connect_spawn"
    /\ process = 2
    /\ is_connected
    /\ child[1].status = "exited"

\* C10: the first __anext__ of receive_messages() with no child held
\* raises CLIConnectionError, yields nothing, starts no read_stderr task
\* and leaves the transport and the children as they were.
C10_NotConnected ==
    /\ [][(calls' = calls + 1 /\ process = None) =>
              /\ pc' = "failed"
              /\ err' = "CLIConnectionError"
              /\ yielded' = <<>>
              /\ UNCHANGED <<transport, env, drain, dpc>>]_vars
    /\ []((pc = "failed" /\ err = "CLIConnectionError") =>
              /\ yielded = <<>>
              /\ fed = <<>>
              /\ drain # "running")

C10_Witness ==
    /\ pc = "failed"
    /\ err = "CLIConnectionError"
    /\ last = "anext"
    /\ process = None
    /\ child[1].status = "exited"

\* the sequence has run to the end of the message stream and lines 281-289
\* have decided its outcome
Reconciled ==
    pc = "done" \/ (pc = "failed" /\ err = "ProcessError")

\* C11: once a sequence has run to the end of the message stream and has
\* been reconciled, is_connected() is false, and a later receive_messages()
\* on the same transport raises CLIConnectionError: it starts no second
\* sequence and no second reconciliation.
C11_NotRestartable ==
    /\ [](Reconciled => ~is_connected)
    /\ [][(Reconciled /\ calls' = calls + 1) =>
              /\ pc' = "failed"
              /\ err' = "CLIConnectionError"
              /\ drain' = drain]_vars

\* C12: a sequence closed by the consumer after a yielded value is
\* eventually closed with no read_stderr task running or waited for,
\* whatever the child does, even if it keeps running with its diagnostic
\* stream open.
C12_CloseTearsDownDrain ==
    (pc = "closing") ~> (pc = "closed" /\ drain # "running")

\* the generator has started on a stream and is over, by any way: the end
\* of the stream, ProcessError, SDKJSONDecodeError or the consumer's close
Terminated ==
    /\ pc \in {"done", "closed", "failed"}
    /\ err # "CLIConnectionError"
    /\ gen_out # None

\* C13: once the sequence is over, by whatever way, the child it read from
\* is not running any more and the transport has released its stream
\* handles.
C13_CleanupOnEveryExit ==
    Terminated =>
        /\ child[gen_out].status # "running"
        /\ stdout_stream = None
        /\ stderr_stream = None

\* C14: is_connected() is true only while the transport holds a child that
\* connect() spawned, that disconnect() has not released and that has not
\* ended; it is false before connect(), after disconnect() and once the
\* held child has ended.
C14_ConnectedMeansLive ==
    /\ is_connected =>
          /\ process \in Children
          /\ stdout_stream = process
          /\ stderr_stream = process
          /\ child[process].status = "running"
    /\ (\A k \in Children : child[k].status = "unborn") => ~is_connected
    /\ (dpc = "idle" /\ last \in {"disconnect", "disconnect_noop"}) => ~is_connected
    /\ (process # None /\ child[process].status = "exited") => ~is_connected

C14_Witness ==
    /\ process # None
    /\ child[process].status = "exited"
    /\ ~is_connected
    /\ last = "connect_noop"

\* the diagnostic lines read so far are the first of those the child wrote
DrainedPrefix ==
    /\ Len(stderr_lines) <= Len(child[gen_out].errLog)
    /\ \A n \in 1..Len(stderr_lines) :
           stderr_lines[n] = Strip(child[gen_out].errLog[n])

\* C15: while receive_messages() is active, every diagnostic line the
\* child has written is eventually read by read_stderr, in the order
\* written, whether the message loop waits for a line or the generator is
\* suspended at its yield; so a full diagnostic pipe is eventually emptied
\* and the child can write again. The drain stops short only when an
\* exception of the message loop cancels it.
C15_DrainIndependent ==
    /\ [](drain = "running" => DrainedPrefix)
    /\ \A n \in 1..MaxErrLines :
          (drain = "running" /\ Len(child[gen_out].errLog) >= n)
              ~> (Len(stderr_lines) >= n \/ drain = "cancelled")
    /\ (drain = "running" /\ Len(child[gen_out].errPipe) = PipeCap)
          ~> (Len(child[gen_out].errPipe) < PipeCap \/ drain = "cancelled")

C15_Witness ==
    /\ pc = "yielded"
    /\ drain = "running"
    /\ child[gen_out].status = "running"
    /\ Len(child[gen_out].errLog) = MaxErrLines
    /\ Len(stderr_lines) = MaxErrLines
    /\ child[gen_out].errPipe = <<>>

\* lines 187-190: the scanner state the loop starts from
ScanInit ==
    [brace_count |-> 0, bracket_count |-> 0,
     in_string |-> FALSE, escape_next |-> FALSE]

\* C16: after every non-blank line added to the buffer, the scanner state
\* kept from line to line is the state a scan of the whole buffer (the
\* lines joined by "\n") from its first character gives.
C16_IncrementalIsWhole ==
    \A i \in 1..Len(fed) :
        fed[i].ev \in {"keep", "yield", "reset"} =>
            ScanLine(fed[i].st, fed[i].line)
                = ScanLine(ScanInit, AddLine(fed[i].buf, fed[i].line))

\* C17: a line that would take the buffer (the buffer, the "\n" when the
\* buffer is not empty, and the line) over MAX_BUFFER_SIZE raises
\* SDKJSONDecodeError instead of being added, so the buffer is never
\* longer than MAX_BUFFER_SIZE.
C17_BufferWithinCeiling ==
    /\ Len(json_buffer) <= MAX_BUFFER_SIZE
    /\ \A i \in 1..Len(fed) :
          (fed[i].ev # "skip"
             /\ Len(AddLine(fed[i].buf, fed[i].line)) > MAX_BUFFER_SIZE)
                => fed[i].ev = "raise"

\* the scanner state right after line i was added and scanned
After(i) == ScanLine(fed[i].st, fed[i].line)

\* that state closes a frame: both counters zero, outside a string
Balanced(st) == st.brace_count = 0 /\ st.bracket_count = 0 /\ ~st.in_string

\* C18, as stated: a value is yielded after a line exactly when the state
\* right after the line has both counters zero and is outside a string:
\* never in another state, and always in that one.
C18_EmitIffBalanced_Original ==
    \A i \in 1..Len(fed) :
        fed[i].ev \in {"keep", "yield", "reset"} =>
            (fed[i].ev = "yield" <=> Balanced(After(i)))

\* C18, amended: a value is yielded only in that state, and in any other
\* the line is kept pending; in that state the
\* buffer is yielded as one frame, and the buffer, counters and flags
\* reset once the consumer asks for the next value, if json.loads accepts
\* it; if not, it is kept when it starts with { or [ and is shorter than
\* MAX_BUFFER_SIZE (SDKJSONDecodeError is raised when it is not shorter),
\* and discarded with the same reset otherwise.
C18_EmitIffBalanced ==
    /\ \A i \in 1..Len(fed) :
          LET buf == AddLine(fed[i].buf, fed[i].line)
          IN  /\ fed[i].ev = "yield" => Balanced(After(i))
              /\ (fed[i].ev # "skip" /\ ~Balanced(After(i))
                    /\ Len(fed[i].buf) + Len(fed[i].line) <= MAX_BUFFER_SIZE) =>
                     fed[i].ev = "keep"
              /\ (fed[i].ev # "skip" /\ Balanced(After(i))
                    /\ Len(fed[i].buf) + Len(fed[i].line) <= MAX_BUFFER_SIZE) =>
                     IF JsonValid(buf) THEN fed[i].ev = "yield"
                     ELSE IF StartsWith(buf, LB) \/ StartsWith(buf, LK)
                     THEN IF Len(buf) < MAX_BUFFER_SIZE
                          THEN fed[i].ev = "keep"
                          ELSE fed[i].ev = "raise"
                     ELSE fed[i].ev = "reset"
              /\ (i < Len(fed) /\ fed[i].ev \in {"yield", "reset"}) =>
                     fed[i + 1].buf = <<>> /\ fed[i + 1].st = ScanInit
              /\ (i < Len(fed) /\ fed[i].ev = "keep") =>
                     fed[i + 1].buf = buf /\ fed[i + 1].st = After(i)
    /\ (Len(fed) > 0 /\ fed[Len(fed)].ev = "yield") =>
          \/ /\ pc = "yielded"
             /\ yielded[Len(yielded)]
                    = JsonLoads(AddLine(fed[Len(fed)].buf, fed[Len(fed)].line)).value
          \/ pc = "reading" /\ json_buffer = <<>> /\ Scanner = ScanInit

C18_Witness ==
    /\ Len(fed) = 3
    /\ fed[1].ev = "reset" /\ Balanced(After(1))
    /\ fed[2].ev = "yield" /\ fed[2].buf = <<>>
    /\ fed[3].ev = "keep" /\ Balanced(After(3))

\* the diagnostic lines the child the sequence reads from has written,
\* stripped as read_stderr strips them
Diagnostics == [n \in 1..Len(child[gen_out].errLog) |-> Strip(child[gen_out].errLog[n])]

\* C19: lines 282-289 run only once the message stream is at its end, the
\* read_stderr task has read the diagnostic stream to its end and the
\* child has ended; the ProcessError raised carries every diagnostic line
\* the child wrote, in the order written.
C19_ReconcileAfterAll ==
    /\ [][(pc = "waiting" /\ pc' # "waiting") =>
              /\ child[gen_out].outPipe = <<>>
              /\ drain = "done"
              /\ child[gen_out].errPipe = <<>>
              /\ child[gen_out].status = "exited"
              /\ child[process].status = "exited"
              /\ stderr_lines = Diagnostics]_vars
    /\ []((pc = "failed" /\ err = "ProcessError") =>
              failure.stderr = JoinLines(Diagnostics))

\* C20: a buffer left pending when the message stream ends is dropped:
\* the end of the stream yields nothing and raises no SDKJSONDecodeError,
\* and the sequence ends as lines 281-289 decide from the exit code and
\* the diagnostic text alone, whatever the buffer holds.
C20_PendingDroppedAtEof ==
    /\ [][(pc = "reading" /\ pc' \notin {"reading", "yielded"}
             /\ child[gen_out].outPipe = <<>>) =>
              /\ pc' = "joining"
              /\ err' = err
              /\ yielded' = yielded
              /\ fed' = fed]_vars
    /\ [][(pc \in {"joining", "waiting"}) =>
              /\ yielded' = yielded
              /\ err' # "SDKJSONDecodeError"]_vars
    /\ [](Reconciled =>
              /\ Len(yielded) = YieldsUpTo(Len(fed))
              /\ IF child[gen_out].code # 0
                    /\ Contains(Lower(JoinLines(stderr_lines)), ErrorIndicator)
                 THEN pc = "failed" /\ err = "ProcessError"
                 ELSE pc = "done" /\ err = "none")

C20_Witness ==
    /\ pc = "failed"
    /\ err = "ProcessError"
    /\ json_buffer # <<>>
    /\ Len(fed) = 2
    /\ fed[1].ev = "yield"
    /\ fed[2].ev = "keep"
    /\ Len(yielded) = 1

====
